---------------------------- MODULE Spec2Model ----------------------------
(***************************************************************************)
(* A model of the infectious-disease simulation: the configuration        *)
(* validation (config.py), the timescale derivation and Disease           *)
(* construction of the session (main.py), the hazard engine (disease.py), *)
(* the proximity graph builder (create_graph.py), the building placement  *)
(* (world/tilemap.py), the run loop (main.py) and the agent state machine *)
(* that evaluates the hazards.                                             *)
(*                                                                         *)
(* Numbers.  Python floats are modelled in fixed point.                   *)
(*  - A daily probability is a numerator over PScale (PScale = 1.0).      *)
(*  - A time is a number of ticks, TicksPerSecond ticks to the second.    *)
(*  - The float subtraction 1.0 - prob rounds to the significand width;   *)
(*    the model keeps that rounding with a significand of MantBits bits   *)
(*    (binary64 has 53), round-half-to-even.  log and exp are taken as    *)
(*    exact: only log(1.0) = 0 and exp(0) = 1 and their monotonicity      *)
(*    matter to the branches of the code.                                 *)
(***************************************************************************)
EXTENDS Integers, Sequences, FiniteSets, TLC

VARIABLES
    pc,          \* where the modelled run stands
    params,      \* the dictionary handed to Config.from_dict
    config,      \* the Config record from_dict returned (NoConfig before / on error)
    sph,         \* Main.__seconds_per_hour, in ticks
    d,           \* the Disease instances: d[1] and d[2] are built alike and called alike
    args,        \* the constructor arguments the instances were built with
    ret,         \* ret[i]: what the last infect / recover / die call on d[i] returned
    incRet,      \* incRet[i]: what the last get_incubation_time call on d[i] returned
    lastOp,      \* the last Disease method called
    lastDt,      \* its delta_time argument, in ticks
    draws,       \* draws[i]: values the last call took from d[i]'s random source
    map,         \* CreateGraph.__map: the tile array, a sequence of rows
    graph,       \* what make_graph returned (a function from points to neighbour lists)
    running,     \* the local "running" of Main.__run_simulation
    events,      \* the pygame event queue: whether a QUIT event waits in it
    frame,       \* what the run loop has done: frames begun, steps applied, the frame that saw QUIT
    agent,       \* one simulated individual: health state, time in state, history of the last tick
    tilemap,     \* the fields of the Tilemap
    empty_locations  \* the local empty_locations of Tilemap.render, as the last call left it

\* the state of the run loop, and that of the tilemap
loopVars == <<running, events, frame>>
worldVars == <<tilemap, empty_locations>>

\* the state of the hazard model, and that of the graph builder
hazardVars == <<params, config, sph, d, args, ret, incRet, lastOp, lastDt, draws>>
graphVars == <<map, graph>>

vars == <<pc, params, config, sph, d, args, ret, incRet, lastOp, lastDt, draws, map, graph,
          running, events, frame, agent, tilemap, empty_locations>>

---------------------------------------------------------------------------
(* Bounds of the model *)

\* significand bits of the modelled float format (binary64: 53)
MantBits == 2
\* states of the modelled random generator
RngMod == 3
\* delta_time ranges over -MaxDelta .. MaxDelta whole days (of 24 real seconds)
MaxDelta == 1
\* simulation_speed ranges over -1 .. MaxSpeed
MaxSpeed == 2
\* every 0/1 tile array of GridRows x GridCols tiles is a map
GridRows == 2
GridCols == 3
\* and so is every DenseSide x DenseSide array with at most one empty tile
DenseSide == 4
\* the run loop is followed for MaxFrames frames
MaxFrames == 3
\* a Tilemap has 1 .. MaxSide tiles each way, and up to MaxSide + 1 houses and
\* offices to place, at least one of each
MaxSide == 2

---------------------------------------------------------------------------
(* Arithmetic helpers *)

RECURSIVE Pow(_, _)
Pow(b, e) == IF e = 0 THEN 1 ELSE b * Pow(b, e - 1)

RECURSIVE Fact(_)
Fact(n) == IF n <= 1 THEN 1 ELSE n * Fact(n - 1)

RECURSIVE Log2(_)
Log2(v) == IF v < 2 THEN 0 ELSE 1 + Log2(v \div 2)

\* 1.0 as a probability numerator: the grid is one bit finer than the significand
PScale == Pow(2, MantBits + 1)

\* ticks per real second: every 1 / speed for speed in 1 .. MaxSpeed is a whole number of ticks
TicksPerSecond == Fact(MaxSpeed)

\* v (a numerator over PScale, 0 < v) rounded to MantBits significant bits, ties to even
RoundToMant(v) ==
    LET e   == Log2(v)
        ulp == IF e >= MantBits THEN Pow(2, e - MantBits + 1) ELSE 1
        lo  == (v \div ulp) * ulp
        rem == v - lo
    IN  IF 2 * rem < ulp THEN lo
        ELSE IF 2 * rem > ulp THEN lo + ulp
        ELSE IF (lo \div ulp) % 2 = 0 THEN lo ELSE lo + ulp

\* the float expression 1.0 - prob of __daily_to_lambda, for 0 < prob < 1
OneMinus(prob) == RoundToMant(PScale - prob)

---------------------------------------------------------------------------
(* config.py: Config.from_dict *)

\* A raw dictionary value: a number (or its text), the float nan, or a value the
\* conversion rejects (unparseable text, a missing key).
Num(v) == [k |-> "num", v |-> v]
NaN == [k |-> "nan", v |-> 0]
Bad == [k |-> "bad", v |-> 0]

\* float(x) and int(x) raise on Bad; int(nan) raises ValueError
FloatRaises(x) == x.k = "bad"
IntRaises(x) == x.k # "num"

\* the comparisons of Python floats: every comparison with nan is False
FLe(a, b) == a.k = "num" /\ b.k = "num" /\ a.v <= b.v
FLt(a, b) == a.k = "num" /\ b.k = "num" /\ a.v < b.v

NoConfig == [simulation_speed |-> Bad, display_size |-> 0, num_houses |-> 0,
             num_offices |-> 0, building_size |-> 0, num_people_in_house |-> 0,
             infection_rate |-> Bad, incubation_time |-> Bad,
             recovery_rate |-> Bad, mortality_rate |-> Bad]

NoParams == [simulation_speed |-> Bad, display_size |-> Bad, num_houses |-> Bad,
             num_offices |-> Bad, building_size |-> Bad, num_people_in_house |-> Bad,
             infection_rate |-> Bad, incubation_time |-> Bad,
             recovery_rate |-> Bad, mortality_rate |-> Bad]

\* the try block: any failing conversion raises ConfigError (str() and bool()
\* of the name and the two flags fail only on a missing key, like the others)
ConversionRaises(p) ==
    \/ FloatRaises(p.simulation_speed)
    \/ IntRaises(p.display_size)
    \/ IntRaises(p.num_houses)
    \/ IntRaises(p.num_offices)
    \/ IntRaises(p.building_size)
    \/ IntRaises(p.num_people_in_house)
    \/ FloatRaises(p.infection_rate)
    \/ FloatRaises(p.incubation_time)
    \/ FloatRaises(p.recovery_rate)
    \/ FloatRaises(p.mortality_rate)

\* "if not (0 <= x <= 1)" for a rate
RateOutOfRange(x) == ~(FLe(Num(0), x) /\ FLe(x, Num(PScale)))

\* "if inc < 0"
IncubationRejected(inc) == FLt(inc, Num(0))

\* the validation checks, in the order of the code; TRUE when one raises ConfigError
ValidationRaises(p) ==
    LET ds == p.display_size.v
        nh == p.num_houses.v
        no == p.num_offices.v
        bs == p.building_size.v
        ppl == p.num_people_in_house.v
    IN  \/ RateOutOfRange(p.infection_rate)
        \/ IncubationRejected(p.incubation_time)
        \/ RateOutOfRange(p.recovery_rate)
        \/ RateOutOfRange(p.mortality_rate)
        \/ bs <= 0
        \/ (bs > 0 /\ (nh <= 0 \/ no <= 0))
        \/ (bs > 0 /\ nh > 0 /\ no > 0 /\ nh + no > (ds \div bs) * (ds \div bs))
        \/ ppl <= 0

\* from_dict: [ok |-> FALSE] when ConfigError is raised, else the Config record
FromDict(p) ==
    IF ConversionRaises(p) \/ ValidationRaises(p)
    THEN [ok |-> FALSE, cfg |-> NoConfig]
    ELSE [ok |-> TRUE,
          cfg |-> [simulation_speed |-> p.simulation_speed,
                   display_size |-> p.display_size.v,
                   num_houses |-> p.num_houses.v,
                   num_offices |-> p.num_offices.v,
                   building_size |-> p.building_size.v,
                   num_people_in_house |-> p.num_people_in_house.v,
                   infection_rate |-> p.infection_rate,
                   incubation_time |-> p.incubation_time,
                   recovery_rate |-> p.recovery_rate,
                   mortality_rate |-> p.mortality_rate]]

---------------------------------------------------------------------------
(* simulation/disease.py: Disease *)

\* random.Random, as a small deterministic generator: random() steps the state
\* and returns state / RngMod, a value of [0, 1)
RngNext(s) == (s + 1) % RngMod

RngStates == 0 .. (RngMod - 1)

\* a hazard rate: cls is "zero" (0.0 or -0.0), "inf", or "fin" (a finite nonzero
\* rate -ln(q / PScale) / day, whose sign is the sign of day)
ZeroRate == [cls |-> "zero", q |-> PScale, day |-> 0]
InfRate == [cls |-> "inf", q |-> 0, day |-> 0]

\* __daily_to_lambda with the two early returns exchanged
DailyToLambdaSwapped(prob, seconds_per_hour) ==
    IF prob <= 0 THEN InfRate
    ELSE IF prob >= PScale THEN ZeroRate
    ELSE LET denominator == 24 * seconds_per_hour
             q == OneMinus(prob)
         IN  IF q = PScale THEN [ZeroRate EXCEPT !.day = denominator]
             ELSE [cls |-> "fin", q |-> q, day |-> denominator]

\* __daily_to_lambda(prob), for a nonzero denominator: log(1.0) = 0.0 gives the
\* rate -0.0 / denominator, a zero
DailyToLambda(prob, seconds_per_hour) ==
    IF prob <= 0 THEN ZeroRate
    ELSE IF prob >= PScale THEN InfRate
    ELSE LET denominator == 24 * seconds_per_hour
             q == OneMinus(prob)
         IN  IF q = PScale THEN [ZeroRate EXCEPT !.day = denominator]
             ELSE [cls |-> "fin", q |-> q, day |-> denominator]

\* __daily_to_lambda raises ZeroDivisionError: it divides by 24 * seconds_per_hour
DailyToLambdaRaises(prob, seconds_per_hour) ==
    0 < prob /\ prob < PScale /\ 24 * seconds_per_hour = 0

\* "self.__rng.random() <= prob": the comparison made inclusive
DrawNotAboveProb(u, q, e) ==
    IF e >= 0
    THEN u * Pow(PScale, e) <= RngMod * (Pow(PScale, e) - Pow(q, e))
    ELSE u * Pow(q, -e) <= RngMod * (Pow(q, -e) - Pow(PScale, -e))

\* "self.__rng.random() < prob" for prob = 1.0 - exp(-lambda_rate * delta_time)
\* = 1 - (q / PScale) ^ e with e = delta_time / day, and the drawn value u / RngMod
DrawBelowProb(u, q, e) ==
    IF e >= 0
    THEN u * Pow(PScale, e) < RngMod * (Pow(PScale, e) - Pow(q, e))
    ELSE u * Pow(q, -e) < RngMod * (Pow(q, -e) - Pow(PScale, -e))

\* __happens with the infinite rate answering "delta_time >= 0.0"
HappensInfAtZero(lambda_rate, delta_time, rng) ==
    IF lambda_rate.cls = "zero" THEN [ret |-> FALSE, rng |-> rng, draws |-> 0]
    ELSE IF lambda_rate.cls = "inf" THEN [ret |-> delta_time >= 0, rng |-> rng, draws |-> 0]
    ELSE LET u == RngNext(rng)
         IN  [ret |-> DrawBelowProb(u, lambda_rate.q, delta_time \div lambda_rate.day),
              rng |-> u, draws |-> 1]

\* __happens taking its value from the random source before it tests the rate
HappensDrawsFirst(lambda_rate, delta_time, rng) ==
    LET u == RngNext(rng)
    IN  IF lambda_rate.cls = "zero" THEN [ret |-> FALSE, rng |-> u, draws |-> 1]
        ELSE IF lambda_rate.cls = "inf" THEN [ret |-> delta_time > 0, rng |-> u, draws |-> 1]
        ELSE [ret |-> DrawBelowProb(u, lambda_rate.q, delta_time \div lambda_rate.day),
              rng |-> u, draws |-> 1]

\* __happens(lambda_rate, delta_time): the outcome, the random source after the
\* call, and the number of values drawn.  delta_time is not tested.  (math.exp
\* overflows only beyond exp(709); (PScale / q) ^ e stays far below that for
\* the deltas of the model.)
Happens(lambda_rate, delta_time, rng) ==
    IF lambda_rate.cls = "zero" THEN [ret |-> FALSE, rng |-> rng, draws |-> 0]
    ELSE IF lambda_rate.cls = "inf" THEN [ret |-> delta_time > 0, rng |-> rng, draws |-> 0]
    ELSE LET u == RngNext(rng)
         IN  [ret |-> DrawBelowProb(u, lambda_rate.q, delta_time \div lambda_rate.day),
              rng |-> u, draws |-> 1]

\* Disease.__init__ with the incubation time left in days times seconds_per_hour
DiseaseInitNoDay(infection_rate, incubation_time, recovery_rate, mortality_rate, seconds_per_hour, rng) ==
    [infection_rate |-> infection_rate,
     incubation_time |-> incubation_time * seconds_per_hour,
     recovery_rate |-> recovery_rate,
     mortality_rate |-> mortality_rate,
     seconds_per_hour |-> seconds_per_hour,
     rng |-> rng,
     lambda_infect |-> DailyToLambda(infection_rate, seconds_per_hour),
     lambda_recover |-> DailyToLambda(recovery_rate, seconds_per_hour),
     lambda_die |-> DailyToLambda(mortality_rate, seconds_per_hour)]

\* Disease.__init__: the fields after construction (rng is the state of the
\* random source the instance holds)
DiseaseInit(infection_rate, incubation_time, recovery_rate, mortality_rate, seconds_per_hour, rng) ==
    [infection_rate |-> infection_rate,
     incubation_time |-> incubation_time * 24 * seconds_per_hour,
     recovery_rate |-> recovery_rate,
     mortality_rate |-> mortality_rate,
     seconds_per_hour |-> seconds_per_hour,
     rng |-> rng,
     lambda_infect |-> DailyToLambda(infection_rate, seconds_per_hour),
     lambda_recover |-> DailyToLambda(recovery_rate, seconds_per_hour),
     lambda_die |-> DailyToLambda(mortality_rate, seconds_per_hour)]

\* Disease.__init__ raises (ZeroDivisionError out of __daily_to_lambda)
DiseaseInitRaises(infection_rate, recovery_rate, mortality_rate, seconds_per_hour) ==
    \/ DailyToLambdaRaises(infection_rate, seconds_per_hour)
    \/ DailyToLambdaRaises(recovery_rate, seconds_per_hour)
    \/ DailyToLambdaRaises(mortality_rate, seconds_per_hour)

NoDisease == DiseaseInit(0, 0, 0, 0, 0, 0)
NoArgs == [infection_rate |-> 0, incubation_time |-> 0, recovery_rate |-> 0,
           mortality_rate |-> 0, seconds_per_hour |-> 0, rng |-> "none"]

Instances == {1, 2}

---------------------------------------------------------------------------
(* create_graph.py: CreateGraph *)

Min(a, b) == IF a <= b THEN a ELSE b
Max(a, b) == IF a >= b THEN a ELSE b

\* int(n ** 0.5)
RECURSIVE ISqrtFrom(_, _)
ISqrtFrom(n, r) == IF (r + 1) * (r + 1) > n THEN r ELSE ISqrtFrom(n, r + 1)
ISqrt(n) == ISqrtFrom(n, 0)

\* "k = max(3, int(len(points) ** 0.5)); k = min(k, 6)"
Heuristic(points) == Min(Max(3, ISqrt(Len(points))), 6)

\* the tiles of row i from column j on that hold a building, as points (i, j)
\* (rows and columns count from 0, as in the code)
RECURSIVE RowPoints(_, _, _)
RowPoints(m, i, j) ==
    IF j >= Len(m[1]) THEN <<>>
    ELSE (IF m[i + 1][j + 1] # 0 THEN << <<i, j>> >> ELSE <<>>) \o RowPoints(m, i, j + 1)

\* "Collect building tiles": the row-major scan
RECURSIVE CollectPoints(_, _)
CollectPoints(m, i) ==
    IF i >= Len(m) THEN <<>> ELSE RowPoints(m, i, 0) \o CollectPoints(m, i + 1)

\* the inner loop without its "continue": p is compared to itself too
RECURSIVE DistancesWithSelf(_, _)
DistancesWithSelf(p, points) ==
    IF points = <<>> THEN <<>>
    ELSE LET q == Head(points)
             dx == p[1] - q[1]
             dy == p[2] - q[2]
         IN  << <<dx * dx + dy * dy, q>> >> \o DistancesWithSelf(p, Tail(points))

\* the inner loop: (distance_squared, q) for every q of points other than p
RECURSIVE Distances(_, _)
Distances(p, points) ==
    IF points = <<>> THEN <<>>
    ELSE LET q == Head(points)
             dx == p[1] - q[1]
             dy == p[2] - q[2]
         IN  (IF p = q THEN <<>> ELSE << <<dx * dx + dy * dy, q>> >>)
             \o Distances(p, Tail(points))

\* item put before the entries of equal distance: a sort that is not stable
RECURSIVE InsertBeforeEqual(_, _)
InsertBeforeEqual(item, sorted) ==
    IF sorted = <<>> THEN <<item>>
    ELSE IF item[1] <= Head(sorted)[1] THEN <<item>> \o sorted
    ELSE <<Head(sorted)>> \o InsertBeforeEqual(item, Tail(sorted))

\* item put into a list sorted by item[0], after every entry that is not greater
RECURSIVE InsertByDistance(_, _)
InsertByDistance(item, sorted) ==
    IF sorted = <<>> THEN <<item>>
    ELSE IF item[1] < Head(sorted)[1] THEN <<item>> \o sorted
    ELSE <<Head(sorted)>> \o InsertByDistance(item, Tail(sorted))

\* "distances.sort(key=lambda item: item[0])": list.sort is stable
RECURSIVE SortByDistance(_)
SortByDistance(distances) ==
    IF distances = <<>> THEN <<>>
    ELSE InsertByDistance(distances[Len(distances)],
                          SortByDistance(SubSeq(distances, 1, Len(distances) - 1)))

\* "Take the K nearest neighbours"
Neighbours(distances, k) ==
    LET limit == Min(k, Len(distances))
    IN  [n \in 1 .. limit |-> distances[n][2]]

\* k computed from the points collected, not from the empty list
NeighbourCountLate(m) == Heuristic(CollectPoints(m, 0))

\* k, "computed" where the code computes it: points is still the empty list
NeighbourCount(m) == Heuristic(<<>>)

\* the list of the nearest neighbours of p among points
NearestOf(p, points, k) == Neighbours(SortByDistance(Distances(p, points)), k)

\* make_graph returning an undirected graph: p also lists every building that lists p
MakeGraphSymmetrized(m) ==
    LET points == CollectPoints(m, 0)
        k == NeighbourCount(m)
        Listed(p, q) == \E i \in 1 .. Len(NearestOf(p, points, k)) : NearestOf(p, points, k)[i] = q
    IN  [n \in 1 .. Len(points) |->
            [key |-> points[n],
             neighbours |->
                NearestOf(points[n], points, k)
                \o SelectSeq(points, LAMBDA q : Listed(q, points[n]) /\ ~Listed(points[n], q))]]

\* make_graph giving an entry only to the buildings that have a neighbour
MakeGraphSkipsIsolated(m) ==
    LET points == CollectPoints(m, 0)
        k == NeighbourCount(m)
    IN  [n \in 1 .. Len(SelectSeq(points, LAMBDA p : NearestOf(p, points, k) # <<>>)) |->
            [key |-> SelectSeq(points, LAMBDA p : NearestOf(p, points, k) # <<>>)[n],
             neighbours |->
                NearestOf(SelectSeq(points, LAMBDA p : NearestOf(p, points, k) # <<>>)[n], points, k)]]

\* make_graph: the dictionary, as the list of its (key, neighbours) items in
\* insertion order
MakeGraphOf(m) ==
    LET points == CollectPoints(m, 0)
        k == NeighbourCount(m)
    IN  [n \in 1 .. Len(points) |->
            [key |-> points[n],
             neighbours |-> Neighbours(SortByDistance(Distances(points[n], points)), k)]]

---------------------------------------------------------------------------
(* main.py: the state of Main.__run_simulation *)

\* what the loop has done so far: frames begun, calls of update_time,
\* update_positions and draw_people, calls of display.update, the frames in
\* which the clock was running, and the frame whose event poll saw QUIT (0: none)
NoFrame == [begun |-> 0, time |-> 0, positions |-> 0, draws |-> 0, shown |-> 0,
            ticks |-> 0, quitAt |-> 0]

\* the positions within __run_simulation
LoopPositions == {"while", "events", "if_clock", "update_time", "update_positions",
                  "draw_people", "display_time"}

---------------------------------------------------------------------------
(* The agent state machine.  simulation/population.py is not among the      *)
(* sources: the machine is the one section 4.3 of the specification         *)
(* describes, its hazards evaluated by the Disease of disease.py.           *)

HealthStates == {"Susceptible", "Exposed", "Infectious", "Recovered", "Deceased"}

TerminalStates == {"Recovered", "Deceased"}

\* no agent yet.  trail lists the health states the agent has entered; from,
\* near and evals tell of the last tick: the state it found, whether an
\* infectious agent was near, and the hazards it evaluated
NoAgent == [health |-> "none", timeInState |-> 0, trail |-> <<>>,
            from |-> "none", near |-> FALSE, evals |-> 0]

\* the agent a entering the health state h
Enter(a, h) == [a EXCEPT !.health = h, !.timeInState = 0, !.trail = Append(@, h)]

\* a tick in which a susceptible agent that passes the infection hazard
\* becomes Infectious at once
AgentStepSkipsExposed(a, delta_time, near, dis) ==
    LET rng == dis.rng
    IN  CASE a.health = "Susceptible" /\ near ->
                LET r == Happens(dis.lambda_infect, delta_time, rng)
                IN  [agent |-> IF r.ret THEN Enter(a, "Infectious") ELSE a,
                     rng |-> r.rng, evals |-> 1]
          [] a.health = "Exposed" ->
                LET t == a.timeInState + delta_time
                IN  [agent |-> IF t >= dis.incubation_time
                               THEN Enter(a, "Infectious")
                               ELSE [a EXCEPT !.timeInState = t],
                     rng |-> rng, evals |-> 0]
          [] a.health = "Infectious" ->
                LET rec == Happens(dis.lambda_recover, delta_time, rng)
                    die == Happens(dis.lambda_die, delta_time, rec.rng)
                IN  [agent |-> IF die.ret THEN Enter(a, "Deceased")
                               ELSE IF rec.ret THEN Enter(a, "Recovered")
                               ELSE a,
                     rng |-> die.rng, evals |-> 2]
          [] OTHER -> [agent |-> a, rng |-> rng, evals |-> 0]

\* a tick that goes on evaluating the death hazard for a recovered agent
AgentStepRecoveredDies(a, delta_time, near, dis) ==
    LET rng == dis.rng
    IN  CASE a.health = "Susceptible" /\ near ->
                LET r == Happens(dis.lambda_infect, delta_time, rng)
                IN  [agent |-> IF r.ret THEN Enter(a, "Exposed") ELSE a,
                     rng |-> r.rng, evals |-> 1]
          [] a.health = "Exposed" ->
                LET t == a.timeInState + delta_time
                IN  [agent |-> IF t >= dis.incubation_time
                               THEN Enter(a, "Infectious")
                               ELSE [a EXCEPT !.timeInState = t],
                     rng |-> rng, evals |-> 0]
          [] a.health = "Infectious" ->
                LET rec == Happens(dis.lambda_recover, delta_time, rng)
                    die == Happens(dis.lambda_die, delta_time, rec.rng)
                IN  [agent |-> IF die.ret THEN Enter(a, "Deceased")
                               ELSE IF rec.ret THEN Enter(a, "Recovered")
                               ELSE a,
                     rng |-> die.rng, evals |-> 2]
          [] a.health = "Recovered" ->
                LET die == Happens(dis.lambda_die, delta_time, rng)
                IN  [agent |-> IF die.ret THEN Enter(a, "Deceased") ELSE a,
                     rng |-> die.rng, evals |-> 1]
          [] OTHER -> [agent |-> a, rng |-> rng, evals |-> 0]

\* one tick of one agent with the elapsed time delta_time >= 0: the agent
\* after it, the random source after it, and the hazards evaluated.
\*  - Susceptible, an infectious agent near: infect(delta_time); on True, Exposed
\*  - Exposed: timeInState += delta_time; at the incubation time, Infectious
\*  - Infectious: recover(delta_time) and die(delta_time), death first
\*  - Recovered, Deceased: nothing
AgentStep(a, delta_time, near, dis) ==
    LET rng == dis.rng
    IN  CASE a.health = "Susceptible" /\ near ->
                LET r == Happens(dis.lambda_infect, delta_time, rng)
                IN  [agent |-> IF r.ret THEN Enter(a, "Exposed") ELSE a,
                     rng |-> r.rng, evals |-> 1]
          [] a.health = "Exposed" ->
                LET t == a.timeInState + delta_time
                IN  [agent |-> IF t >= dis.incubation_time
                               THEN Enter(a, "Infectious")
                               ELSE [a EXCEPT !.timeInState = t],
                     rng |-> rng, evals |-> 0]
          [] a.health = "Infectious" ->
                LET rec == Happens(dis.lambda_recover, delta_time, rng)
                    die == Happens(dis.lambda_die, delta_time, rec.rng)
                IN  [agent |-> IF die.ret THEN Enter(a, "Deceased")
                               ELSE IF rec.ret THEN Enter(a, "Recovered")
                               ELSE a,
                     rng |-> die.rng, evals |-> 2]
          [] OTHER -> [agent |-> a, rng |-> rng, evals |-> 0]

---------------------------------------------------------------------------
(* world/tilemap.py: Tilemap *)

\* building_cls((x, y)): a building of the kind at the location.  (buildings.py
\* is not among the sources; get_location() answers the (x, y) the building
\* was made with, as lines 195 and 230 use it.)
Building(building_cls, x, y) == [kind |-> building_cls, location |-> <<x, y>>]

\* get_tile_value(): not zero, 1 for a house and 2 for an office
TileValue(building) == IF building.kind = "House" THEN 1 ELSE 2

\* Tilemap.__init__ for size = (w, h): np.zeros(size) has w rows and h columns
TilemapInit(w, h, num_houses, num_offices) ==
    [size |-> <<w, h>>,
     map |-> [i \in 1 .. w |-> [j \in 1 .. h |-> 0]],
     houses_list |-> <<>>,
     offices_list |-> <<>>,
     houses_dict |-> <<>>,
     offices_dict |-> <<>>,
     buildings |-> <<>>,
     num_houses |-> num_houses,
     num_offices |-> num_offices,
     current_houses |-> 0,
     current_offices |-> 0]

NoTilemap == TilemapInit(0, 0, 0, 0)

\* "self.__map[y, x]" is out of the array: IndexError
IndexRaises(t, y, x) == ~(y < t.size[1] /\ x < t.size[2])

\* the comprehension of render raises IndexError
EmptyLocationsRaises(t) ==
    \E x \in 0 .. t.size[1] - 1, y \in 0 .. t.size[2] - 1 : IndexRaises(t, y, x)

\* "[(x, y) for x in range(size[0]) for y in range(size[1]) if map[y, x] == 0]"
EmptyLocations(t) ==
    LET w == t.size[1]
        h == t.size[2]
        all == [n \in 1 .. w * h |-> <<(n - 1) \div h, (n - 1) % h>>]
    IN  SelectSeq(all, LAMBDA loc : t.map[loc[2] + 1][loc[1] + 1] = 0)

\* list.remove(item): the list without the first item equal to it
RECURSIVE Remove(_, _)
Remove(items, item) ==
    IF items = <<>> THEN <<>>
    ELSE IF Head(items) = item THEN Tail(items)
    ELSE <<Head(items)>> \o Remove(Tail(items), item)

\* dict[key] = value, the dictionary as the list of its items in insertion order
DictSet(dict, key, value) ==
    IF \E n \in 1 .. Len(dict) : dict[n].key = key
    THEN [n \in 1 .. Len(dict) |->
            IF dict[n].key = key THEN [key |-> key, value |-> value] ELSE dict[n]]
    ELSE Append(dict, [key |-> key, value |-> value])

\* __place_building that leaves the location it used in the free list
PlaceBuildingKeepsLocation(st, building_cls, choice) ==
    IF st.empty_locations = <<>> THEN st
    ELSE
        LET t == st.t
            x == choice[1]
            y == choice[2]
            building == Building(building_cls, x, y)
            placed ==
                IF building.kind = "House" /\ t.current_houses < t.num_houses
                THEN [t EXCEPT !.houses_dict = DictSet(@, building.location, building),
                               !.houses_list = Append(@, building),
                               !.current_houses = @ + 1]
                ELSE [t EXCEPT !.offices_dict = DictSet(@, building.location, building),
                               !.offices_list = Append(@, building),
                               !.current_offices = @ + 1]
        IN  IF \/ building.kind = "House" /\ t.current_houses < t.num_houses
               \/ building.kind = "Office" /\ t.current_offices < t.num_offices
            THEN [t |-> [placed EXCEPT !.buildings = Append(@, building),
                                       !.map[y + 1][x + 1] = TileValue(building)],
                  empty_locations |-> st.empty_locations]
            ELSE st

\* __place_building(building_cls, empty_locations), random.choice having
\* answered choice: the Tilemap and the list after the call
PlaceBuilding(st, building_cls, choice) ==
    IF st.empty_locations = <<>> THEN st
    ELSE
        LET t == st.t
            x == choice[1]
            y == choice[2]
            building == Building(building_cls, x, y)
            placed ==
                IF building.kind = "House" /\ t.current_houses < t.num_houses
                THEN [t EXCEPT !.houses_dict = DictSet(@, building.location, building),
                               !.houses_list = Append(@, building),
                               !.current_houses = @ + 1]
                ELSE [t EXCEPT !.offices_dict = DictSet(@, building.location, building),
                               !.offices_list = Append(@, building),
                               !.current_offices = @ + 1]
        IN  IF \/ building.kind = "House" /\ t.current_houses < t.num_houses
               \/ building.kind = "Office" /\ t.current_offices < t.num_offices
            THEN [t |-> [placed EXCEPT !.buildings = Append(@, building),
                                       !.map[y + 1][x + 1] = TileValue(building)],
                  empty_locations |-> Remove(st.empty_locations, <<x, y>>)]
            ELSE st

\* what random.choice(empty_locations) may answer (nothing is chosen from an
\* empty list: the call returns before)
Choices(empty) ==
    IF empty = <<>> THEN {<<0, 0>>} ELSE {empty[n] : n \in 1 .. Len(empty)}

\* the calls of __place_building that render makes, in order
PlaceCalls(t) ==
    [n \in 1 .. t.num_houses + t.num_offices |->
        IF n <= t.num_houses THEN "House" ELSE "Office"]

\* the two loops of render: every Tilemap and free list they can end with
RECURSIVE PlaceAll(_, _)
PlaceAll(st, calls) ==
    IF calls = <<>> THEN {st}
    ELSE UNION {PlaceAll(next, Tail(calls)) :
                    next \in {PlaceBuilding(st, Head(calls), choice) :
                                 choice \in Choices(st.empty_locations)}}

---------------------------------------------------------------------------
(* The inputs *)

\* daily probabilities, as numerators over PScale: below 0, 0, the smallest
\* positive grid value (1.0 - prob rounds to 1.0, as it does for every
\* prob < 2^-54 in binary64), a half, 1 and above 1.  Each is a value of the
\* modelled float format.
Probs == {-1, 0, 1, PScale \div 2, PScale, PScale + PScale \div 2}

RawProbs == {Num(v) : v \in Probs} \cup {NaN, Bad}

Speeds == -1 .. MaxSpeed

RawSpeeds == {Num(v) : v \in Speeds} \cup {Bad}

\* incubation_time, in days
Incubations == {0, 2}

RawIncubations == {Num(v) : v \in {-1} \cup Incubations} \cup {NaN, Bad}

\* seconds_per_hour of a directly constructed Disease, in ticks: 0, 1 and 1 / MaxSpeed
SecondsPerHourValues == {0, TicksPerSecond, TicksPerSecond \div MaxSpeed}

\* delta_time, in ticks: whole days of 24 real seconds
Deltas == {m * 24 * TicksPerSecond : m \in -MaxDelta .. MaxDelta}

\* the fields of a dictionary that passes every check of from_dict
ValidParams == [simulation_speed |-> Num(1), display_size |-> Num(4), num_houses |-> Num(1),
                num_offices |-> Num(1), building_size |-> Num(2),
                num_people_in_house |-> Num(1),
                infection_rate |-> Num(0), incubation_time |-> Num(1),
                recovery_rate |-> Num(0), mortality_rate |-> Num(0)]

\* the dictionaries the session of the hazard model is configured from
SessionParams ==
    {[ValidParams EXCEPT !.simulation_speed = Num(sp), !.infection_rate = Num(ir),
                         !.recovery_rate = Num(rec), !.mortality_rate = Num(mort)] :
        sp \in Speeds, ir \in Probs, rec \in Probs, mort \in Probs}

\* the dictionaries from_dict is tried on: every combination of the speed, the
\* rates and the incubation time in an otherwise valid dictionary, and every
\* combination of the sizes and counts with valid rates
ParamSpace ==
    {[ValidParams EXCEPT !.simulation_speed = sp, !.infection_rate = ir,
                         !.incubation_time = inc, !.recovery_rate = rec,
                         !.mortality_rate = mort] :
        sp \in RawSpeeds, ir \in RawProbs, inc \in RawIncubations,
        rec \in RawProbs, mort \in RawProbs}
    \cup
    {[ValidParams EXCEPT !.display_size = ds, !.num_houses = nh, !.num_offices = no,
                         !.building_size = bs, !.num_people_in_house = ppl] :
        ds \in {Num(4), Num(5), NaN}, nh \in {Num(0), Num(1), Num(4)},
        no \in {Num(0), Num(1), Bad}, bs \in {Num(0), Num(2), Bad},
        ppl \in {Num(0), Num(1), NaN}}

\* the daily probabilities of the agent model: never, a half, certain
AgentProbs == {0, PScale \div 2, PScale}

\* the tile arrays: all 0/1 arrays of the small grid, and the dense arrays (of
\* tile value 2) with at most one empty tile
SmallMaps == [1 .. GridRows -> [1 .. GridCols -> {0, 1}]]

DenseMaps ==
    {[i \in 1 .. DenseSide |-> [j \in 1 .. DenseSide |->
            IF <<i, j>> = hole THEN 0 ELSE 2]] :
        hole \in ((1 .. DenseSide) \X (1 .. DenseSide)) \cup {<<0, 0>>}}

Maps == SmallMaps \cup DenseMaps

---------------------------------------------------------------------------
(* main.py: Main.__init__ *)

\* ui.get_config(): the interface (not among the sources) hands over the record
\* Config.from_dict makes of the entered parameters; no record when from_dict
\* raises ConfigError
MainGetConfig(P) ==
    /\ pc = "start"
    /\ \E p \in P :
          LET r == FromDict(p)
          IN  /\ params' = p
              /\ config' = r.cfg
              /\ pc' = IF r.ok THEN "configured" ELSE "config_error"
    /\ UNCHANGED <<sph, d, args, ret, incRet, lastOp, lastDt, draws, map, graph, loopVars, agent, worldVars>>

\* "self.__seconds_per_hour = 1 / self.__config.simulation_speed"
MainTimescales ==
    /\ pc = "configured"
    /\ IF config.simulation_speed.v = 0
       THEN pc' = "crashed" /\ sph' = sph
       ELSE pc' = "timescaled" /\ sph' = TicksPerSecond \div config.simulation_speed.v
    /\ UNCHANGED <<params, config, d, args, ret, incRet, lastOp, lastDt, draws, map, graph, loopVars, agent, worldVars>>

\* "self.__disease = disease.Disease(...)": no rng argument, so each instance
\* seeds its own random.Random() from the operating system.  d[1] and d[2] are
\* two runs of the session on the same configuration.
MainDisease ==
    /\ pc = "timescaled"
    /\ config.incubation_time.k = "num"
    /\ LET ir == config.infection_rate.v
           inc == config.incubation_time.v
           rec == config.recovery_rate.v
           mort == config.mortality_rate.v
       IN  IF DiseaseInitRaises(ir, rec, mort, sph)
           THEN pc' = "crashed" /\ UNCHANGED <<d, args>>
           ELSE /\ pc' = "built"
                /\ \E s1 \in RngStates, s2 \in RngStates :
                      d' = [i \in Instances |->
                              DiseaseInit(ir, inc, rec, mort, sph, IF i = 1 THEN s1 ELSE s2)]
                /\ args' = [infection_rate |-> ir, incubation_time |-> inc,
                            recovery_rate |-> rec, mortality_rate |-> mort,
                            seconds_per_hour |-> sph, rng |-> "default"]
    /\ UNCHANGED <<params, config, sph, ret, incRet, lastOp, lastDt, draws, map, graph, loopVars, agent, worldVars>>

---------------------------------------------------------------------------
(* Disease used directly, with an explicit random source *)

\* Disease(ir, inc, rec, mort, s, random.Random(seed)), twice with the same arguments
NewDisease ==
    /\ pc = "start"
    /\ \E ir \in Probs, inc \in Incubations, rec \in Probs, mort \in Probs,
          s \in SecondsPerHourValues, seed \in RngStates :
          IF DiseaseInitRaises(ir, rec, mort, s)
          THEN pc' = "crashed" /\ UNCHANGED <<d, args>>
          ELSE /\ pc' = "built"
               /\ d' = [i \in Instances |-> DiseaseInit(ir, inc, rec, mort, s, seed)]
               /\ args' = [infection_rate |-> ir, incubation_time |-> inc,
                           recovery_rate |-> rec, mortality_rate |-> mort,
                           seconds_per_hour |-> s, rng |-> "explicit"]
    /\ UNCHANGED <<params, config, sph, ret, incRet, lastOp, lastDt, draws, map, graph, loopVars, agent, worldVars>>

\* the same hazard call on both instances
HazardCall(op, delta_time, rate) ==
    LET r == [i \in Instances |-> Happens(rate[i], delta_time, d[i].rng)]
    IN  /\ pc = "built"
        /\ d' = [i \in Instances |-> [d[i] EXCEPT !.rng = r[i].rng]]
        /\ ret' = [i \in Instances |-> r[i].ret]
        /\ draws' = [i \in Instances |-> r[i].draws]
        /\ lastOp' = op
        /\ lastDt' = delta_time
        /\ UNCHANGED <<pc, params, config, sph, args, incRet, map, graph, loopVars, agent, worldVars>>

Infect == \E dt \in Deltas : HazardCall("infect", dt, [i \in Instances |-> d[i].lambda_infect])

Recover == \E dt \in Deltas : HazardCall("recover", dt, [i \in Instances |-> d[i].lambda_recover])

Die == \E dt \in Deltas : HazardCall("die", dt, [i \in Instances |-> d[i].lambda_die])

GetIncubationTime ==
    /\ pc = "built"
    /\ incRet' = [i \in Instances |-> d[i].incubation_time]
    /\ lastOp' = "get_incubation_time"
    /\ draws' = [i \in Instances |-> 0]
    /\ UNCHANGED <<pc, params, config, sph, d, args, ret, lastDt, map, graph, loopVars, agent, worldVars>>

---------------------------------------------------------------------------
(* CreateGraph used on a tile array *)

\* CreateGraph(map_array)
NewCreateGraph ==
    /\ pc = "start"
    /\ \E m \in Maps : map' = m
    /\ pc' = "graph_ready"
    /\ UNCHANGED <<params, config, sph, d, args, ret, incRet, lastOp, lastDt, draws, graph, loopVars, agent, worldVars>>

\* make_graph() marking the tiles it has collected as empty
MakeGraphConsumesMap ==
    /\ pc \in {"graph_ready", "graph_made", "graph_remade"}
    /\ graph' = MakeGraphOf(map)
    /\ map' = [i \in 1 .. Len(map) |-> [j \in 1 .. Len(map[i]) |-> 0]]
    /\ pc' = IF pc = "graph_ready" THEN "graph_made" ELSE "graph_remade"
    /\ UNCHANGED <<hazardVars, loopVars, agent, worldVars>>

\* make_graph(): the first call on the array (graph_made), or a later one
\* (graph_remade)
MakeGraph ==
    /\ pc \in {"graph_ready", "graph_made", "graph_remade"}
    /\ graph' = MakeGraphOf(map)
    /\ pc' = IF pc = "graph_ready" THEN "graph_made" ELSE "graph_remade"
    /\ UNCHANGED <<params, config, sph, d, args, ret, incRet, lastOp, lastDt, draws, map, loopVars, agent, worldVars>>

---------------------------------------------------------------------------
(* The population: one agent and the session's Disease *)

\* the Disease of a valid configuration at speed 1, and an agent created
\* Susceptible
NewPopulation ==
    /\ pc = "start"
    /\ \E ir \in AgentProbs, inc \in Incubations, rec \in AgentProbs, mort \in AgentProbs,
          seed \in RngStates :
          /\ d' = [i \in Instances |-> DiseaseInit(ir, inc, rec, mort, TicksPerSecond, seed)]
          /\ args' = [infection_rate |-> ir, incubation_time |-> inc,
                      recovery_rate |-> rec, mortality_rate |-> mort,
                      seconds_per_hour |-> TicksPerSecond, rng |-> "explicit"]
    /\ agent' = Enter(NoAgent, "Susceptible")
    /\ pc' = "population"
    /\ UNCHANGED <<params, config, sph, ret, incRet, lastOp, lastDt, draws, graphVars, loopVars, worldVars>>

\* one tick: the clock hands over delta_time, the contact layer tells whether
\* an infectious agent is near.  A negative delta_time is rejected.
Tick ==
    /\ pc = "population"
    /\ \E delta_time \in Deltas, near \in BOOLEAN :
          /\ lastDt' = delta_time
          /\ IF delta_time < 0
             THEN /\ pc' = "tick_rejected"
                  /\ UNCHANGED <<agent, d>>
             ELSE LET r == AgentStep(agent, delta_time, near, d[1])
                  IN  /\ pc' = pc
                      /\ agent' = [r.agent EXCEPT !.from = agent.health, !.near = near,
                                                   !.evals = r.evals]
                      /\ d' = [i \in Instances |-> [d[i] EXCEPT !.rng = r.rng]]
    /\ lastOp' = "tick"
    /\ UNCHANGED <<params, config, sph, args, ret, incRet, draws, graphVars, loopVars, worldVars>>

---------------------------------------------------------------------------
(* The Tilemap, and the graph of its map *)

\* Tilemap(display, num_houses, num_offices, building_width, building_height)
NewTilemap ==
    /\ pc = "start"
    /\ \E w \in 1 .. MaxSide, h \in 1 .. MaxSide,
          num_houses \in 1 .. MaxSide, num_offices \in 1 .. MaxSide :
          /\ num_houses + num_offices <= MaxSide + 1
          /\ tilemap' = TilemapInit(w, h, num_houses, num_offices)
    /\ pc' = "tilemap"
    /\ UNCHANGED <<empty_locations, hazardVars, graphVars, loopVars, agent>>

\* render(pause): the free list, the placements, then the drawing (which
\* changes nothing of the Tilemap).  The first call, or a later one.
Render ==
    /\ pc \in {"tilemap", "rendered", "rerendered"}
    /\ IF EmptyLocationsRaises(tilemap)
       THEN /\ pc' = "render_error"
            /\ UNCHANGED <<tilemap, empty_locations>>
       ELSE /\ pc' = IF pc = "tilemap" THEN "rendered" ELSE "rerendered"
            /\ \E st \in PlaceAll([t |-> tilemap, empty_locations |-> EmptyLocations(tilemap)],
                                   PlaceCalls(tilemap)) :
                  /\ tilemap' = st.t
                  /\ empty_locations' = st.empty_locations
    /\ UNCHANGED <<hazardVars, graphVars, loopVars, agent>>

\* CreateGraph(tilemap.get_map()): get_map answers the array itself
TilemapCreateGraph ==
    /\ pc \in {"rendered", "rerendered"}
    /\ map' = tilemap.map
    /\ pc' = "graph_ready"
    /\ UNCHANGED <<graph, hazardVars, loopVars, agent, worldVars>>

---------------------------------------------------------------------------
(* main.py: Main.__run_simulation *)

\* "running = True" and the pygame clock: the loop is entered
RunSimulation ==
    /\ pc = "start"
    /\ pc' = "while"
    /\ running' = TRUE
    /\ events' = FALSE
    /\ frame' = NoFrame
    /\ UNCHANGED <<hazardVars, graphVars, agent, worldVars>>

\* the user closes the window: pygame queues a QUIT event, at any moment
PostQuit ==
    /\ pc \in LoopPositions
    /\ ~events
    /\ frame.quitAt = 0
    /\ events' = TRUE
    /\ UNCHANGED <<pc, running, frame, hazardVars, graphVars, agent, worldVars>>

\* "while running:", and pygame.quit() after the loop
WhileRunning ==
    /\ pc = "while"
    /\ IF running
       THEN /\ frame.begun < MaxFrames
            /\ frame' = [frame EXCEPT !.begun = @ + 1]
            /\ pc' = "events"
       ELSE /\ frame' = frame
            /\ pc' = "quit"
    /\ UNCHANGED <<running, events, hazardVars, graphVars, agent, worldVars>>

\* the event poll leaving the loop at once on QUIT
PollEventsBreaks ==
    /\ pc = "events"
    /\ IF events
       THEN /\ running' = FALSE
            /\ frame' = [frame EXCEPT !.quitAt = frame.begun]
            /\ pc' = "quit"
       ELSE /\ UNCHANGED <<running, frame>>
            /\ pc' = "if_clock"
    /\ events' = FALSE
    /\ UNCHANGED <<hazardVars, graphVars, agent, worldVars>>

\* "for event in pygame.event.get(): if event.type == pygame.QUIT: running = False"
PollEvents ==
    /\ pc = "events"
    /\ IF events
       THEN /\ running' = FALSE
            /\ frame' = [frame EXCEPT !.quitAt = frame.begun]
       ELSE UNCHANGED <<running, frame>>
    /\ events' = FALSE
    /\ pc' = "if_clock"
    /\ UNCHANGED <<hazardVars, graphVars, agent, worldVars>>

\* "if self.__clock.get_running():" (the Clock is not among the sources: it
\* answers either way)
IfClockRunning ==
    /\ pc = "if_clock"
    /\ \E get_running \in BOOLEAN :
          IF get_running
          THEN pc' = "update_time" /\ frame' = [frame EXCEPT !.ticks = @ + 1]
          ELSE pc' = "display_time" /\ frame' = frame
    /\ UNCHANGED <<running, events, hazardVars, graphVars, agent, worldVars>>

\* "self.__clock.update_time()"
UpdateTime ==
    /\ pc = "update_time"
    /\ frame' = [frame EXCEPT !.time = @ + 1]
    /\ pc' = "update_positions"
    /\ UNCHANGED <<running, events, hazardVars, graphVars, agent, worldVars>>

\* "self.__population.update_positions()"
UpdatePositions ==
    /\ pc = "update_positions"
    /\ frame' = [frame EXCEPT !.positions = @ + 1]
    /\ pc' = "draw_people"
    /\ UNCHANGED <<running, events, hazardVars, graphVars, agent, worldVars>>

\* the blit of the map surface and "self.__population.draw_people()"
DrawPeople ==
    /\ pc = "draw_people"
    /\ frame' = [frame EXCEPT !.draws = @ + 1]
    /\ pc' = "display_time"
    /\ UNCHANGED <<running, events, hazardVars, graphVars, agent, worldVars>>

\* display_time(), display.update() and pygame_clock.tick(fps): the frame ends
DisplayUpdate ==
    /\ pc = "display_time"
    /\ frame' = [frame EXCEPT !.shown = @ + 1]
    /\ pc' = "while"
    /\ UNCHANGED <<running, events, hazardVars, graphVars, agent, worldVars>>

---------------------------------------------------------------------------
(* Specifications *)

Init ==
    /\ pc = "start"
    /\ params = NoParams
    /\ config = NoConfig
    /\ sph = 0
    /\ d = [i \in Instances |-> NoDisease]
    /\ args = NoArgs
    /\ ret = [i \in Instances |-> FALSE]
    /\ incRet = [i \in Instances |-> 0]
    /\ lastOp = "none"
    /\ lastDt = 0
    /\ draws = [i \in Instances |-> 0]
    /\ map = <<>>
    /\ graph = <<>>
    /\ running = FALSE
    /\ events = FALSE
    /\ frame = NoFrame
    /\ agent = NoAgent
    /\ tilemap = NoTilemap
    /\ empty_locations = <<>>

NextDisease ==
    \/ NewDisease
    \/ MainGetConfig(SessionParams)
    \/ MainTimescales
    \/ MainDisease
    \/ Infect
    \/ Recover
    \/ Die
    \/ GetIncubationTime

\* the hazard model: a session's Disease, or a Disease built directly, and its calls
SpecDisease == Init /\ [][NextDisease]_vars

NextConfig ==
    \/ MainGetConfig(ParamSpace)
    \/ MainTimescales

\* the configuration: from_dict on a dictionary, then the session's timescale
SpecConfig == Init /\ [][NextConfig]_vars

NextGraph ==
    \/ NewCreateGraph
    \/ MakeGraph

\* the proximity graph: make_graph on a tile array
SpecGraph == Init /\ [][NextGraph]_vars

NextAgent ==
    \/ NewPopulation
    \/ Tick

\* the agent state machine over the session's Disease
SpecAgent == Init /\ [][NextAgent]_vars

NextTilemap ==
    \/ NewTilemap
    \/ Render
    \/ TilemapCreateGraph
    \/ MakeGraph

\* the Tilemap: construction, render, and the graph made of its map
SpecTilemap == Init /\ [][NextTilemap]_vars

NextRun ==
    \/ RunSimulation
    \/ PostQuit
    \/ WhileRunning
    \/ PollEvents
    \/ IfClockRunning
    \/ UpdateTime
    \/ UpdatePositions
    \/ DrawPeople
    \/ DisplayUpdate

\* the run loop of the session
SpecRun == Init /\ [][NextRun]_vars

---------------------------------------------------------------------------
(* Claims about the hazard model (SpecDisease) *)

HazardOps == {"infect", "recover", "die"}

\* the daily probability the instances were built with for the method last called
RateArg ==
    CASE lastOp = "infect" -> args.infection_rate
      [] lastOp = "recover" -> args.recovery_rate
      [] lastOp = "die" -> args.mortality_rate
      [] OTHER -> 0

\* the hazard rate the method last called evaluates
RateOf(i) ==
    CASE lastOp = "infect" -> d[i].lambda_infect
      [] lastOp = "recover" -> d[i].lambda_recover
      [] lastOp = "die" -> d[i].lambda_die
      [] OTHER -> ZeroRate

HazardCalled == pc = "built" /\ lastOp \in HazardOps

\* the rate l is what the claim promises for the daily probability p
RateClassOK(p, l) ==
    /\ (p <= 0 => l.cls = "zero")
    /\ (p >= PScale => l.cls = "inf")
    /\ (0 < p /\ p < PScale => l.cls = "fin" /\ l.day > 0)

\* C1: every rate computed at construction (with a positive seconds_per_hour)
\* is 0 for p <= 0, +infinity for p >= 1, and finite and strictly positive for
\* 0 < p < 1.
C1_RateClasses ==
    (pc = "built" /\ args.seconds_per_hour > 0) =>
        \A i \in Instances :
            /\ RateClassOK(d[i].infection_rate, d[i].lambda_infect)
            /\ RateClassOK(d[i].recovery_rate, d[i].lambda_recover)
            /\ RateClassOK(d[i].mortality_rate, d[i].lambda_die)

\* C2: a Disease built with daily probability 0 for a transition answers
\* False to that transition's call for every delta >= 0, whatever the state
\* of the random source and whatever was called before.
C2_ZeroRateNeverOccurs ==
    (HazardCalled /\ RateArg = 0 /\ lastDt >= 0) =>
        \A i \in Instances : ret[i] = FALSE

\* a call with a positive delta on a probability-0 transition answered False
\* on two instances whose random sources are in different states
C2_Witness ==
    /\ HazardCalled /\ RateArg = 0 /\ lastDt > 0
    /\ ret[1] = FALSE /\ ret[2] = FALSE
    /\ args.rng = "default"
    /\ d[1].rng # d[2].rng

\* C3: a Disease built with daily probability 1 for a transition answers
\* True for every delta > 0 and False for delta = 0, drawing nothing from the
\* random source.
C3_InfiniteRateIffTimePasses ==
    (HazardCalled /\ RateArg = PScale) =>
        \A i \in Instances : ret[i] = (lastDt > 0) /\ draws[i] = 0

\* a probability-1 call with a positive delta answered True on two instances
\* whose random sources are in different states
C3_Witness ==
    /\ HazardCalled /\ RateArg = PScale /\ lastDt > 0
    /\ ret[1] /\ ret[2]
    /\ d[1].rng # d[2].rng

\* C4: with delta = 0 every call answers False, for a zero, a finite and an
\* infinite rate and every value of the random source.
C4_NoEventWithoutTime ==
    (HazardCalled /\ lastDt = 0) => \A i \in Instances : ret[i] = FALSE

\* a delta-0 call on a finite positive rate that drew the value 0 from the
\* random source
C4_Witness ==
    /\ HazardCalled /\ lastDt = 0
    /\ RateOf(1).cls = "fin" /\ RateOf(1).day > 0
    /\ draws[1] = 1 /\ d[1].rng = 0
    /\ ret[1] = FALSE

\* C5: a negative delta is rejected with an error: no hazard call with a
\* negative delta (on a Disease built with rates in [0, 1] and a positive
\* seconds_per_hour) completes with a Boolean answer.
C5_NegativeDeltaRejected ==
    ~(/\ HazardCalled /\ lastDt < 0
      /\ args.seconds_per_hour > 0
      /\ \A p \in {args.infection_rate, args.recovery_rate, args.mortality_rate} :
            0 <= p /\ p <= PScale)

\* C6: two instances built with the same parameters, the session's own
\* included, answer the same sequence of calls (with a positive
\* seconds_per_hour and deltas >= 0) identically.
C6_SameAnswers ==
    (HazardCalled /\ args.seconds_per_hour > 0 /\ lastDt >= 0) => ret[1] = ret[2]

\* C7: the incubation duration is incubation days * 24 * seconds_per_hour,
\* from construction on and through every call, and get_incubation_time
\* returns it.
C7_IncubationFixed ==
    pc = "built" =>
        \A i \in Instances :
            /\ d[i].incubation_time = args.incubation_time * 24 * args.seconds_per_hour
            /\ (lastOp = "get_incubation_time" =>
                    incRet[i] = args.incubation_time * 24 * args.seconds_per_hour)

\* get_incubation_time answered a positive duration after a hazard call that
\* answered True
C7_Witness ==
    /\ pc = "built" /\ lastOp = "get_incubation_time"
    /\ incRet[1] > 0 /\ incRet[1] = incRet[2]
    /\ args.seconds_per_hour # TicksPerSecond
    /\ ret[1] = TRUE

\* the hazard rate of the instance dis that the method op evaluates
RateFor(dis, op) ==
    CASE op = "infect" -> dis.lambda_infect
      [] op = "recover" -> dis.lambda_recover
      [] op = "die" -> dis.lambda_die
      [] OTHER -> ZeroRate

---------------------------------------------------------------------------
(* Claims about the configuration (SpecConfig) *)

FromDictReturned == pc \in {"configured", "timescaled", "crashed"}

FromDictDone == FromDictReturned \/ pc = "config_error"

\* a rate within [0, 1], an incubation time >= 0 (false of nan, as in Python)
InUnitInterval(x) == FLe(Num(0), x) /\ FLe(x, Num(PScale))
NonNegative(x) == FLe(Num(0), x)

\* C8: from_dict raises ConfigError whenever a rate is outside [0, 1] or the
\* incubation time is negative, and every Config it returns has its three
\* rates in [0, 1] and incubation_time >= 0.
C8_ValidatedRates ==
    /\ (FromDictDone /\ (\/ ~InUnitInterval(params.infection_rate)
                         \/ ~InUnitInterval(params.recovery_rate)
                         \/ ~InUnitInterval(params.mortality_rate)
                         \/ FLt(params.incubation_time, Num(0))))
            => pc = "config_error"
    /\ FromDictReturned =>
            /\ InUnitInterval(config.infection_rate)
            /\ InUnitInterval(config.recovery_rate)
            /\ InUnitInterval(config.mortality_rate)
            /\ NonNegative(config.incubation_time)

\* C9: no Config that from_dict returns carries simulation_speed <= 0, and the
\* seconds_per_hour derived from it is a positive number.
C9_SpeedPositive ==
    /\ FromDictReturned => FLt(Num(0), config.simulation_speed)
    /\ pc = "timescaled" => sph > 0

---------------------------------------------------------------------------
(* Claims about the proximity graph (SpecGraph) *)

\* make_graph has returned
GraphMade == pc \in {"graph_made", "graph_remade"}

\* the number of building tiles of the map
BuildingCount ==
    Cardinality({ij \in (1 .. Len(map)) \X (1 .. Len(map[1])) : map[ij[1]][ij[2]] # 0})

\* C10: with N building tiles, make_graph gives every building a neighbour
\* list of exactly min(3, N - 1) entries, whatever N is.
C10_NeighbourListLength ==
    GraphMade =>
        /\ Len(graph) = BuildingCount
        /\ \A n \in 1 .. Len(graph) :
              Len(graph[n].neighbours) = Min(3, BuildingCount - 1)

\* a map of 16 buildings, where max(3, int(sqrt(N))) would be 4, with lists of 3
C10_Witness ==
    /\ GraphMade
    /\ BuildingCount >= 16
    /\ Len(graph) = BuildingCount
    /\ \A n \in 1 .. Len(graph) : Len(graph[n].neighbours) = 3

\* the building tiles of the map, as points (row, column) counted from 0
BuildingPoints ==
    {<<i - 1, j - 1>> : <<i, j>> \in
        {ij \in (1 .. Len(map)) \X (1 .. Len(map[1])) : map[ij[1]][ij[2]] # 0}}

\* the coordinates in the neighbour list of the n-th key
ListedBy(n) == {graph[n].neighbours[i] : i \in 1 .. Len(graph[n].neighbours)}

\* the n for which graph[n].key = p
EntryOf(p) == CHOOSE n \in 1 .. Len(graph) : graph[n].key = p

\* q is in p's neighbour list
Lists(p, q) == q \in ListedBy(EntryOf(p))

DistanceSquared(p, q) == (p[1] - q[1]) * (p[1] - q[1]) + (p[2] - q[2]) * (p[2] - q[2])

\* the place of a point in the row-major scan of the map
ScanRank(p) == p[1] * Len(map[1]) + p[2]

\* a comes before b in the stable ascending sort of the distances to p
SortsBefore(p, a, b) ==
    \/ DistanceSquared(p, a) < DistanceSquared(p, b)
    \/ DistanceSquared(p, a) = DistanceSquared(p, b) /\ ScanRank(a) < ScanRank(b)

\* C11: no key of the graph make_graph returns appears in its own neighbour
\* list, for every input map.
C11_NoSelfLoops ==
    GraphMade => \A n \in 1 .. Len(graph) : graph[n].key \notin ListedBy(n)

\* a graph of at least five buildings, each with a full list that leaves itself out
C11_Witness ==
    /\ GraphMade
    /\ BuildingCount >= 5
    /\ \A n \in 1 .. Len(graph) :
          Len(graph[n].neighbours) = 3 /\ graph[n].key \notin ListedBy(n)

\* C12: the neighbour list of a building P is the first min(3, N - 1) entries
\* of the other buildings sorted ascending by squared distance to P, ties in
\* row-major scan order: its entries are other buildings, each sorts before
\* the next, and every building left out sorts after every entry.
C12_NearestInStableOrder ==
    GraphMade =>
        \A n \in 1 .. Len(graph) :
            LET P == graph[n].key
                list == graph[n].neighbours
                others == BuildingPoints \ {P}
            IN  /\ Len(list) = Min(3, Cardinality(BuildingPoints) - 1)
                /\ \A i \in 1 .. Len(list) : list[i] \in others
                /\ \A i \in 1 .. Len(list), j \in 1 .. Len(list) :
                      i < j => SortsBefore(P, list[i], list[j])
                /\ \A q \in others \ ListedBy(n) :
                      \A i \in 1 .. Len(list) : SortsBefore(P, list[i], q)

\* a building whose list holds two buildings at the same distance, and leaves
\* out a third one at the distance of its last entry
C12_Witness ==
    /\ GraphMade
    /\ \E n \in 1 .. Len(graph) :
          LET P == graph[n].key
              list == graph[n].neighbours
          IN  /\ Len(list) = 3
              /\ DistanceSquared(P, list[1]) = DistanceSquared(P, list[2])
              /\ ScanRank(list[1]) < ScanRank(list[2])
              /\ \E q \in (BuildingPoints \ {P}) \ ListedBy(n) :
                    DistanceSquared(P, q) = DistanceSquared(P, list[3])

\* every tile of the map holds a building
FullMap == \A i \in 1 .. Len(map) : \A j \in 1 .. Len(map[i]) : map[i][j] # 0

\* C13: the graph is not symmetrized.  On every map of at least 2 rows and 3
\* columns with a building on every tile, the corner (0, 0) lists (1, 1) and
\* (1, 1) does not list the corner: inputs exist whose graph is not symmetric.
C13_NotSymmetrized ==
    (GraphMade /\ FullMap /\ Len(map) >= 2 /\ Len(map[1]) >= 3) =>
        /\ Lists(<<0, 0>>, <<1, 1>>)
        /\ ~Lists(<<1, 1>>, <<0, 0>>)

\* a graph in which some building B is in A's list while A is not in B's
C13_Witness ==
    /\ GraphMade
    /\ \E a \in 1 .. Len(graph), b \in 1 .. Len(graph) :
          /\ graph[b].key \in ListedBy(a)
          /\ graph[a].key \notin ListedBy(b)

---------------------------------------------------------------------------
(* Claims about the run loop (SpecRun) *)

\* C16: within a frame the time update, the position update and the drawing
\* run in this order and a frame applies all three or none; QUIT takes effect
\* at the loop test only: the frame that observes it runs to its end, no frame
\* begins after it, and the loop ends.
C16_NoPartialTick ==
    /\ pc = "update_positions" =>
            frame.time = frame.ticks /\ frame.positions = frame.ticks - 1
                                    /\ frame.draws = frame.ticks - 1
    /\ pc = "draw_people" =>
            frame.time = frame.ticks /\ frame.positions = frame.ticks
                                    /\ frame.draws = frame.ticks - 1
    /\ pc \in {"while", "events", "if_clock", "display_time", "quit"} =>
            frame.time = frame.ticks /\ frame.positions = frame.ticks
                                    /\ frame.draws = frame.ticks
    /\ pc \in {"while", "quit"} => frame.shown = frame.begun
    /\ (pc \in LoopPositions \ {"while"}) => frame.shown = frame.begun - 1
    /\ (pc \in LoopPositions \cup {"quit"}) =>
            /\ running = (frame.quitAt = 0)
            /\ frame.quitAt # 0 => frame.begun = frame.quitAt
    /\ pc = "quit" => ~running

\* the loop has ended after a second frame that observed QUIT and still
\* applied its tick
C16_Witness ==
    /\ pc = "quit"
    /\ frame.quitAt = 2
    /\ frame.shown = 2
    /\ frame.ticks = 2 /\ frame.draws = 2

---------------------------------------------------------------------------
(* Claims about the agent state machine (SpecAgent) *)

\* the steps of Susceptible -> Exposed -> Infectious -> {Recovered | Deceased}
ForwardSteps == {<<"Susceptible", "Exposed">>, <<"Exposed", "Infectious">>,
                 <<"Infectious", "Recovered">>, <<"Infectious", "Deceased">>}

\* C17: over any sequence of ticks an agent's health state stays or takes
\* one step along Susceptible -> Exposed -> Infectious -> {Recovered |
\* Deceased}: it never returns to an earlier state, never skips a state and
\* is never infected again.
C17_ForwardOnly ==
    [][pc = "population" =>
          \/ agent'.health = agent.health
          \/ <<agent.health, agent'.health>> \in ForwardSteps]_vars

\* an agent that went through every state up to Deceased
C17_Witness ==
    /\ pc = "population"
    /\ agent.trail = <<"Susceptible", "Exposed", "Infectious", "Deceased">>
    /\ agent.health = "Deceased"

\* C18: a tick of a Recovered or Deceased agent, whatever the elapsed time
\* and whatever the random source would answer, leaves the agent's state as
\* it was, evaluates no hazard and draws nothing from the random source.
C18_TerminalAbsorbing ==
    [][(pc = "population" /\ agent.health \in TerminalStates) =>
          /\ agent'.health = agent.health
          /\ agent'.timeInState = agent.timeInState
          /\ agent'.trail = agent.trail
          /\ d' = d
          /\ (pc' = "population" => agent'.evals = 0)]_vars

\* a tick with time elapsed and an infectious agent near has found the agent
\* Recovered, under a Disease whose death is certain
C18_Witness ==
    /\ pc = "population"
    /\ agent.from = "Recovered"
    /\ agent.health = "Recovered"
    /\ agent.near
    /\ lastDt > 0
    /\ args.mortality_rate > 0
    /\ args.infection_rate = PScale
    /\ agent.evals = 0

---------------------------------------------------------------------------
(* Claims about the Tilemap (SpecTilemap) *)

\* the locations (get_location) of the buildings in a list
Locations(buildings) == {buildings[n].location : n \in 1 .. Len(buildings)}

\* the keys of the graph
GraphKeys == {graph[n].key : n \in 1 .. Len(graph)}

\* C19: after render has placed the buildings and make_graph has run on
\* get_map(), the keys of the graph are the locations of the placed buildings,
\* and every coordinate of a neighbour list is such a location.
C19_KeyedByLocation ==
    (GraphMade /\ tilemap # NoTilemap) =>
        /\ GraphKeys = Locations(tilemap.buildings)
        /\ \A n \in 1 .. Len(graph) : ListedBy(n) \subseteq Locations(tilemap.buildings)

\* render has returned at least once
Rendered == pc \in {"rendered", "rerendered"}

\* the Tilemap's locations (x, y)
AllLocations == (0 .. tilemap.size[1] - 1) \X (0 .. tilemap.size[2] - 1)

\* C20: after any number of render calls no two placed buildings share a
\* location; the free list render ends with holds exactly the locations no
\* building was placed on; at most num_houses houses and num_offices offices
\* are placed; and the buildings list is the placed houses plus the placed
\* offices.
C20_PlacementInvariants ==
    Rendered =>
        LET b == tilemap.buildings
            houses == tilemap.houses_list
            offices == tilemap.offices_list
        IN  /\ \A i \in 1 .. Len(b), j \in 1 .. Len(b) :
                  i # j => b[i].location # b[j].location
            /\ {empty_locations[n] : n \in 1 .. Len(empty_locations)} = AllLocations \ Locations(b)
            /\ Len(empty_locations) = Cardinality(AllLocations) - Len(b)
            /\ \A loc \in AllLocations :
                  (tilemap.map[loc[2] + 1][loc[1] + 1] # 0) <=> (loc \in Locations(b))
            /\ Len(houses) <= tilemap.num_houses
            /\ Len(offices) <= tilemap.num_offices
            /\ tilemap.current_houses = Len(houses)
            /\ tilemap.current_offices = Len(offices)
            /\ \A n \in 1 .. Len(houses) : houses[n].kind = "House"
            /\ \A n \in 1 .. Len(offices) : offices[n].kind = "Office"
            /\ Len(b) = Len(houses) + Len(offices)
            /\ {b[n] : n \in 1 .. Len(b)} =
                    {houses[n] : n \in 1 .. Len(houses)} \cup {offices[n] : n \in 1 .. Len(offices)}
            /\ {tilemap.houses_dict[n].key : n \in 1 .. Len(tilemap.houses_dict)} = Locations(houses)
            /\ {tilemap.offices_dict[n].key : n \in 1 .. Len(tilemap.offices_dict)} = Locations(offices)

\* render called again on a Tilemap with all its houses and offices placed
\* and locations still free: nothing more is placed
C20_Witness ==
    /\ pc = "rerendered"
    /\ Len(tilemap.houses_list) = tilemap.num_houses
    /\ Len(tilemap.offices_list) = tilemap.num_offices
    /\ Len(tilemap.buildings) >= 3
    /\ Len(empty_locations) >= 1

=============================================================================
